---- MODULE Spec2Model ----
(***************************************************************************)
(* ztextutils: the mask engine (InputMask), the entity matcher             *)
(* (TextParser) and the facade that combines them (TextUtils).             *)
(*                                                                         *)
(* A JavaScript string is a sequence of one-character strings.  An object  *)
(* with optional properties is a record whose DOMAIN holds exactly the     *)
(* properties that are set; a missing property reads as undefined.         *)
(***************************************************************************)
EXTENDS Integers, Sequences, FiniteSets, TLC

VARIABLES inst, parser, phase, call, ret

vars == <<inst, parser, phase, call, ret>>

----------------------------------------------------------------------------
(* Characters *)

DigitSeq == <<"0","1","2","3","4","5","6","7","8","9">>
LowerSeq == <<"a","b","c","d","e","f","g","h","i","j","k","l","m",
              "n","o","p","q","r","s","t","u","v","w","x","y","z">>
UpperSeq == <<"A","B","C","D","E","F","G","H","I","J","K","L","M",
              "N","O","P","Q","R","S","T","U","V","W","X","Y","Z">>

Range(s) == {s[i] : i \in DOMAIN s}

Digits == Range(DigitSeq)
Lower == Range(LowerSeq)
Upper == Range(UpperSeq)
Letters == Lower \cup Upper
AlphaNum == Digits \cup Letters
HexDigits == Digits \cup {"a","b","c","d","e","f"} \cup {"A","B","C","D","E","F"}

\* String.prototype.toUpperCase / toLowerCase on one ASCII character
toUpperCase(c) ==
    IF c \in Lower THEN UpperSeq[CHOOSE i \in DOMAIN LowerSeq : LowerSeq[i] = c] ELSE c

toLowerCase(c) ==
    IF c \in Upper THEN LowerSeq[CHOOSE i \in DOMAIN UpperSeq : UpperSeq[i] = c] ELSE c

----------------------------------------------------------------------------
(* JavaScript values *)

\* property p of object o is set
Has(o, p) == p \in DOMAIN o

\* o.p is truthy, for a boolean property that may be missing
Truthy(o, p) == Has(o, p) /\ o[p]

\* the object {} as a token table
NoTokens == [k \in {} |-> k]

\* { ...a, ...b }
Spread(a, b) ==
    [k \in (DOMAIN a) \cup (DOMAIN b) |-> IF k \in DOMAIN b THEN b[k] ELSE a[k]]

\* a value of type string | string[]
Str(s) == [kind |-> "string", s |-> s]
Arr(a) == [kind |-> "array", a |-> a]

\* the result of a call: a string, null, a boolean, or a thrown TypeError
Ok(s) == [tag |-> "str", s |-> s]
Null == [tag |-> "null"]
Bool(b) == [tag |-> "bool", b |-> b]
Throw == [tag |-> "throw"]

----------------------------------------------------------------------------
(* InputMask: token and preset tables *)

DEFAULT_TOKENS ==
    [k \in {"9", "a", "A", "*", "#", "x", "X"} |->
        CASE k = "9" -> [pattern |-> Digits, transform |-> "id"]
          [] k = "a" -> [pattern |-> Letters, transform |-> "lower"]
          [] k = "A" -> [pattern |-> Letters, transform |-> "upper"]
          [] k = "*" -> [pattern |-> AlphaNum]
          [] k = "#" -> [pattern |-> AlphaNum]
          [] k = "x" -> [pattern |-> HexDigits]
          [] k = "X" -> [pattern |-> HexDigits, transform |-> "upper"]]

MacTokens == [k \in {"X"} |-> [pattern |-> HexDigits, transform |-> "upper"]]

PhoneTemplate == <<"(","9","9","9",")"," ","9","9","9","-","9","9","9","9">>
PhoneExtTemplate == <<"(","9","9","9",")"," ","9","9","9","-","9","9","9","9",
                      "?"," ","x","9","9","9","9","9">>
PhoneIntTemplate == <<"+","9"," ","(","9","9","9",")"," ","9","9","9","-","9","9","9","9">>
DateTemplate == <<"9","9","/","9","9","/","9","9","9","9">>
TimeTemplate == <<"9","9",":","9","9">>
DateTimeTemplate == <<"9","9","/","9","9","/","9","9","9","9"," ","9","9",":","9","9">>
SsnTemplate == <<"9","9","9","-","9","9","-","9","9","9","9">>
CreditCardTemplate == <<"9","9","9","9"," ","9","9","9","9"," ","9","9","9","9"," ","9","9","9","9">>
CurrencyTemplate == <<"$","9","9","9",",","9","9","9",",","9","9","9",".","9","9">>
Ipv4Template == <<"9","9","9",".","9","9","9",".","9","9","9",".","9","9","9">>
MacTemplate == <<"X","X",":","X","X",":","X","X",":","X","X",":","X","X",":","X","X">>

PresetNames == {"phone", "phoneExt", "phoneInt", "date", "time", "datetime",
                "ssn", "creditCard", "currency", "ipv4", "mac"}

PRESET_MASKS ==
    [n \in PresetNames |->
        CASE n = "phone" -> [mask |-> Str(PhoneTemplate), autoClear |-> TRUE]
          [] n = "phoneExt" -> [mask |-> Str(PhoneExtTemplate), autoClear |-> FALSE]
          [] n = "phoneInt" -> [mask |-> Str(PhoneIntTemplate), autoClear |-> TRUE]
          [] n = "date" -> [mask |-> Str(DateTemplate),
                            placeholder |-> <<"m","m","/","d","d","/","y","y","y","y">>]
          [] n = "time" -> [mask |-> Str(TimeTemplate),
                            placeholder |-> <<"h","h",":","m","m">>]
          [] n = "datetime" -> [mask |-> Str(DateTimeTemplate),
                                placeholder |-> <<"m","m","/","d","d","/","y","y","y","y",
                                                  " ","h","h",":","m","m">>]
          [] n = "ssn" -> [mask |-> Str(SsnTemplate), autoClear |-> TRUE]
          [] n = "creditCard" -> [mask |-> Str(CreditCardTemplate), autoClear |-> TRUE]
          [] n = "currency" -> [mask |-> Str(CurrencyTemplate), autoClear |-> FALSE,
                                allowEmpty |-> TRUE]
          [] n = "ipv4" -> [mask |-> Str(Ipv4Template), autoClear |-> TRUE]
          [] n = "mac" -> [mask |-> Str(MacTemplate), tokens |-> MacTokens]]

\* Names that `name in PRESET_MASKS` also finds, on Object.prototype; what is
\* found there is a function, which has no mask property.
InheritedNames == {"toString", "constructor"}

----------------------------------------------------------------------------
(* InputMask.constructor *)

\* options?.mask || "" : the empty string is falsy, an array never is
maskOrDefault(o) ==
    IF Has(o, "mask") /\ ~(o.mask.kind = "string" /\ o.mask.s = <<>>)
    THEN o.mask ELSE Str(<<>>)

\* new InputMask(options); options = NoTokens stands for no argument
constructor(o) ==
    LET options ==
          [mask |-> maskOrDefault(o),
           tokens |-> IF Has(o, "tokens") THEN o.tokens ELSE NoTokens,
           placeholder |-> IF Has(o, "placeholder") /\ o.placeholder # <<>>
                           THEN o.placeholder ELSE <<"_">>,
           autoClear |-> IF Has(o, "autoClear") THEN o.autoClear ELSE TRUE,
           stripMask |-> IF Has(o, "stripMask") THEN o.stripMask ELSE FALSE,
           allowEmpty |-> IF Has(o, "allowEmpty") THEN o.allowEmpty ELSE FALSE]
    IN [options |-> options, tokens |-> Spread(DEFAULT_TOKENS, options.tokens)]

----------------------------------------------------------------------------
(* InputMask.processValue *)

\* token.pattern.test(char)
test(token, char) == char \in token.pattern

\* token.transform ? token.transform(char) : char
transform(token, char) ==
    IF Has(token, "transform")
    THEN CASE token.transform = "upper" -> toUpperCase(char)
           [] token.transform = "lower" -> toLowerCase(char)
           [] OTHER -> char
    ELSE char

\* return options.autoClear ? "" : null
rejected(options) == IF Truthy(options, "autoClear") THEN Ok(<<>>) ELSE Null

\* mutant: the unfilled rest is padded with the placeholder display character
exhaustedPadded(isOptional, result, options) ==
    IF isOptional THEN Ok(Append(result, "_")) ELSE rejected(options)

\* the check at the head of every iteration, once the input is used up
exhausted(isOptional, result, options) ==
    IF isOptional THEN Ok(result) ELSE rejected(options)

\* mutants: the cursor always, or never, moves past a literal
skipLiteralAlways(value, valueIndex, maskChar) == valueIndex + 1

skipLiteralNever(value, valueIndex, maskChar) == valueIndex

\* if (value[valueIndex] === maskChar) valueIndex++
skipLiteral(value, valueIndex, maskChar) ==
    IF valueIndex < Len(value) /\ value[valueIndex + 1] = maskChar
    THEN valueIndex + 1 ELSE valueIndex

\* the while loop of one placeholder: it breaks on an accepted character
\* (br), returns from processValue on a rejected one (rt), or runs out of input (end)
RECURSIVE tokenLoop(_, _, _, _)
tokenLoop(value, token, valueIndex, isOptional) ==
    IF valueIndex >= Len(value) THEN [k |-> "end", valueIndex |-> valueIndex]
    ELSE LET char == value[valueIndex + 1] IN
         IF test(token, char)
         THEN [k |-> "br", valueIndex |-> valueIndex + 1, out |-> transform(token, char)]
         ELSE IF ~isOptional THEN [k |-> "rt"]
         ELSE tokenLoop(value, token, valueIndex + 1, isOptional)

\* the for loop over the pattern, from its m-th character
RECURSIVE maskLoop(_, _, _, _, _, _, _, _)
maskLoop(value, pattern, tokens, options, m, valueIndex, isOptional, result) ==
    IF m > Len(pattern) THEN Ok(result)
    ELSE IF valueIndex >= Len(value) THEN exhausted(isOptional, result, options)
    ELSE LET maskChar == pattern[m] IN
         IF maskChar = "?"
         THEN maskLoop(value, pattern, tokens, options, m + 1, valueIndex, TRUE, result)
         ELSE IF maskChar \in DOMAIN tokens
         THEN LET w == tokenLoop(value, tokens[maskChar], valueIndex, isOptional) IN
              CASE w.k = "br" ->
                     maskLoop(value, pattern, tokens, options, m + 1, w.valueIndex,
                              isOptional, Append(result, w.out))
                [] w.k = "rt" -> rejected(options)
                [] w.k = "end" ->
                     maskLoop(value, pattern, tokens, options, m + 1, w.valueIndex,
                              isOptional, result)
         ELSE maskLoop(value, pattern, tokens, options, m + 1,
                       skipLiteral(value, valueIndex, maskChar), isOptional,
                       Append(result, maskChar))

\* pattern is None when the caller passed undefined: for..of undefined throws
None == [kind |-> "undefined"]

processValue(value, pattern, tokens, options) ==
    IF pattern.kind = "undefined" THEN Throw
    ELSE maskLoop(value, pattern.s, tokens, options, 1, 0, FALSE, <<>>)

----------------------------------------------------------------------------
(* InputMask.applyMask, mask, isComplete, stripMask *)

\* Array.isArray(m) ? m : [m], for m = o.mask; the elements are strings
maskList(o) ==
    IF ~Has(o, "mask") THEN <<None>>
    ELSE IF o.mask.kind = "array"
    THEN [i \in DOMAIN o.mask.a |-> Str(o.mask.a[i])]
    ELSE <<o.mask>>

\* masks[0]
firstMask(masks) == IF Len(masks) = 0 THEN None ELSE masks[1]

\* the loop of applyMask from the i-th pattern: the first result that is not
\* null, or [tag |-> "none"] when the loop runs to its end
RECURSIVE tryMasks(_, _, _, _, _)
tryMasks(value, masks, tokens, options, i) ==
    IF i > Len(masks) THEN [tag |-> "none"]
    ELSE LET result == processValue(value, masks[i], tokens, options) IN
         IF result.tag # "null" THEN result
         ELSE tryMasks(value, masks, tokens, options, i + 1)

\* the tokens applyMask works with
maskTokens(this, options) ==
    Spread(this.tokens, IF Has(options, "tokens") THEN options.tokens ELSE NoTokens)

\* x || "" for x a string or null
orEmpty(r) == IF r.tag = "null" THEN Ok(<<>>) ELSE r

applyMask(this, value, options) ==
    LET masks == maskList(options)
        tokens == maskTokens(this, options)
        found == tryMasks(value, masks, tokens, options, 1)
    IN IF found.tag # "none" THEN found
       ELSE IF Truthy(options, "allowEmpty") /\ value = <<>> THEN Ok(<<>>)
       ELSE orEmpty(processValue(value, firstMask(masks), tokens, options))

\* what a call's maskOpt argument is
Name(n) == [kind |-> "name", name |-> n]
Obj(o) == [kind |-> "object", options |-> o]

\* maskOpt in InputMask.PRESET_MASKS, for a string
inPresets(n) == n \in PresetNames \cup InheritedNames

\* InputMask.PRESET_MASKS[maskOpt]
presetOf(n) == IF n \in PresetNames THEN PRESET_MASKS[n] ELSE NoTokens

\* mutant: the preset table is not consulted
maskStoredOnly(this, value, maskOpt) ==
    applyMask(this, value,
              IF maskOpt.kind = "object" THEN maskOpt.options ELSE this.options)

mask(this, value, maskOpt) ==
    IF maskOpt.kind = "name" /\ inPresets(maskOpt.name)
    THEN applyMask(this, value, presetOf(maskOpt.name))
    ELSE applyMask(this, value,
                   IF maskOpt.kind = "object" THEN maskOpt.options ELSE this.options)

stripMask(this, value) ==
    IF ~this.options.stripMask THEN value
    ELSE SelectSeq(value, LAMBDA c : c \in AlphaNum)

\* mutant: every pattern must fit, not some
isCompleteEvery(this, value) ==
    LET masks == maskList(this.options) IN
    \A i \in DOMAIN masks :
        processValue(value, masks[i], this.tokens, this.options).tag # "null"

isComplete(this, value) ==
    LET masks == maskList(this.options) IN
    \E i \in DOMAIN masks :
        processValue(value, masks[i], this.tokens, this.options).tag # "null"

\* TextUtils.formatCurrency
formatCurrency(this, amount) == mask(this, amount, Name("currency"))

----------------------------------------------------------------------------
(* Regular expressions, as RegExp.prototype[Symbol.matchAll] runs them *)

\* the characters of the texts
Punctuation == {" ", "#", "@", ".", "-", "_", "/", ":", "+", "(", ")", "[", "]",
                "%", "!", ","}
Chars == AlphaNum \cup Punctuation
WordChars == AlphaNum \cup {"_"}
NonSpace == Chars \ {" "}

\* the nodes of a pattern
Set(S) == [t |-> "set", s |-> S]
Cat(l) == [t |-> "cat", l |-> l]
Alt(l) == [t |-> "alt", l |-> l]
Rep(r, min, max) == [t |-> "rep", r |-> r, min |-> min, max |-> max]
Grp(n, r) == [t |-> "grp", n |-> n, r |-> r]
WordBoundary == [t |-> "wb"]
NotWordBoundary == [t |-> "nwb"]

\* no upper limit of a quantifier
Unbounded == -1
Star(r) == Rep(r, 0, Unbounded)
Plus(r) == Rep(r, 1, Unbounded)
Opt(r) == Rep(r, 0, 1)

\* a literal character; under the i flag both its cases
Lit(c) == Set({c})
LitI(c) == Set({toLowerCase(c), toUpperCase(c)})

\* the capture groups of a match that has captured nothing yet
MaxGroups == 5
NoCaps == [n \in 1 .. MaxGroups |-> <<>>]

IsWordAt(text, i) == i >= 1 /\ i <= Len(text) /\ text[i] \in WordChars

\* \b holds between the pos-th and the (pos+1)-th character
AtBoundary(text, pos) == IsWordAt(text, pos) # IsWordAt(text, pos + 1)

\* Ends(re, text, st): the states in which a match of re that starts in state
\* st can end, in the order in which backtracking tries them (greedy
\* quantifiers take the longest first, alternatives come left to right)
RECURSIVE Ends(_, _, _)
RECURSIVE EachEnds(_, _, _, _)
RECURSIVE CatEnds(_, _, _, _)
RECURSIVE AltEnds(_, _, _, _)
RECURSIVE RepEnds(_, _, _, _)
RECURSIVE RepMore(_, _, _, _, _, _)

EachEnds(re, text, sts, i) ==
    IF i > Len(sts) THEN <<>>
    ELSE Ends(re, text, sts[i]) \o EachEnds(re, text, sts, i + 1)

CatEnds(l, k, text, sts) ==
    IF k > Len(l) \/ Len(sts) = 0 THEN sts
    ELSE CatEnds(l, k + 1, text, EachEnds(l[k], text, sts, 1))

AltEnds(l, k, text, st) ==
    IF k > Len(l) THEN <<>>
    ELSE Ends(l[k], text, st) \o AltEnds(l, k + 1, text, st)

RepMore(re, text, sts, i, from, count) ==
    IF i > Len(sts) THEN <<>>
    ELSE (IF sts[i].pos > from THEN RepEnds(re, text, sts[i], count + 1) ELSE <<>>)
         \o RepMore(re, text, sts, i + 1, from, count)

RepEnds(re, text, st, count) ==
    (IF re.max = Unbounded \/ count < re.max
     THEN RepMore(re, text, Ends(re.r, text, st), 1, st.pos, count)
     ELSE <<>>)
    \o (IF count >= re.min THEN <<st>> ELSE <<>>)

Ends(re, text, st) ==
    CASE re.t = "set" ->
           IF st.pos < Len(text) /\ text[st.pos + 1] \in re.s
           THEN <<[st EXCEPT !.pos = st.pos + 1]>> ELSE <<>>
      [] re.t = "wb" -> IF AtBoundary(text, st.pos) THEN <<st>> ELSE <<>>
      [] re.t = "nwb" -> IF AtBoundary(text, st.pos) THEN <<>> ELSE <<st>>
      [] re.t = "cat" -> CatEnds(re.l, 1, text, <<st>>)
      [] re.t = "alt" -> AltEnds(re.l, 1, text, st)
      [] re.t = "rep" -> RepEnds(re, text, st, 0)
      [] re.t = "grp" ->
           LET e == Ends(re.r, text, st) IN
           [i \in DOMAIN e |->
              [e[i] EXCEPT !.caps = [e[i].caps EXCEPT ![re.n] = <<st.pos, e[i].pos>>]]]

\* text.matchAll(re) for a pattern with the g flag, from lastIndex i on
RECURSIVE matchFrom(_, _, _)
matchFrom(re, text, i) ==
    IF i > Len(text) THEN <<>>
    ELSE LET e == Ends(re, text, [pos |-> i, caps |-> NoCaps]) IN
         IF Len(e) = 0 THEN matchFrom(re, text, i + 1)
         ELSE <<[index |-> i, end |-> e[1].pos, caps |-> e[1].caps]>>
              \o matchFrom(re, text, IF e[1].pos = i THEN i + 1 ELSE e[1].pos)

matchAll(re, text) == matchFrom(re, text, 0)

\* text.slice(from, to), offsets counted from 0
slice(text, from, to) == SubSeq(text, from + 1, to)

\* match[0] and match[n]; an unset group is undefined, here the empty string
Whole(text, m) == slice(text, m.index, m.end)
Group(text, m, n) ==
    IF m.caps[n] = <<>> THEN <<>> ELSE slice(text, m.caps[n][1], m.caps[n][2])

----------------------------------------------------------------------------
(* TextParser: patterns *)

SetI(S) == Set({toLowerCase(c) : c \in S} \cup {toUpperCase(c) : c \in S})
LowerDigitHyphen == Lower \cup Digits \cup {"-"}
Digit == Set(Digits)

\* (?:\/[^\s]*)?
urlPath == Opt(Cat(<<Lit("/"), Star(Set(NonSpace))>>))

url ==
    Alt(<<
      Cat(<<WordBoundary,
            Alt(<<Cat(<<LitI("h"), LitI("t"), LitI("t"), LitI("p"), Opt(LitI("s")),
                        Lit(":"), Lit("/"), Lit("/")>>),
                  Cat(<<LitI("w"), LitI("w"), LitI("w"), Lit(".")>>)>>),
            Plus(Set(NonSpace)), Lit("."), Rep(SetI(Lower), 2, Unbounded), urlPath>>),
      Cat(<<WordBoundary, Plus(SetI(LowerDigitHyphen)), Lit("."),
            Rep(SetI(Lower), 2, Unbounded), urlPath, WordBoundary>>)>>)

tagTail == Star(SetI(Lower \cup Digits \cup {".", "_", "-"}))

hashtag == Cat(<<NotWordBoundary, Lit("#"), SetI(Lower), tagTail, WordBoundary>>)

mention == Cat(<<NotWordBoundary, Lit("@"), SetI(Lower), tagTail, WordBoundary>>)

email ==
    Cat(<<WordBoundary, Plus(SetI(Upper \cup Digits \cup {".", "_", "%", "+", "-"})),
          Lit("@"), Plus(SetI(Upper \cup Digits \cup {".", "-"})), Lit("."),
          Rep(SetI(Upper), 2, Unbounded), WordBoundary>>)

phone ==
    Cat(<<Opt(Cat(<<Opt(Lit("+")), Grp(1, Rep(Digit, 1, 3))>>)),
          Star(Set({"-", ".", " ", "("})), Grp(2, Rep(Digit, 3, 3)),
          Star(Set({"-", ".", " ", ")"})), Grp(3, Rep(Digit, 3, 3)),
          Star(Set({"-", ".", " "})), Grp(4, Rep(Digit, 4, 4)),
          Opt(Cat(<<Star(Lit(" ")), Lit("x"), Grp(5, Plus(Digit))>>)),
          WordBoundary>>)

links ==
    Cat(<<Lit("["), Grp(1, Plus(Set(Chars \ {"]"}))), Lit("]"),
          Lit("("), Grp(2, Plus(Set(Chars \ {")"}))), Lit(")")>>)

----------------------------------------------------------------------------
(* TextParser *)

FlagNames == {"urls", "hashtags", "mentions", "emails", "phones", "markdownLinks",
              "markdownHeadings", "markdownLists", "markdownEmphasis"}

\* new TextParser(options): each flag is options.all || options.<flag>
parserConstructor(o) == [f \in FlagNames |-> Truthy(o, "all") \/ Truthy(o, f)]

startsWith(s, prefix) ==
    Len(s) >= Len(prefix) /\ SubSeq(s, 1, Len(prefix)) = prefix

Http == <<"h","t","t","p">>
HttpsPrefix == <<"h","t","t","p","s",":","/","/">>
TagsBase == <<"/","t","a","g","s">>
UsersBase == <<"/","u","s","e","r","s">>
MailTo == <<"m","a","i","l","t","o",":">>
Tel == <<"t","e","l",":">>

\* base.replace(/\/$/, "")
stripTrailingSlash(s) ==
    IF Len(s) > 0 /\ s[Len(s)] = "/" THEN SubSeq(s, 1, Len(s) - 1) ELSE s

\* s.replace(/^\//, "")
stripLeadingSlash(s) ==
    IF Len(s) > 0 /\ s[1] = "/" THEN SubSeq(s, 2, Len(s)) ELSE s

\* baseUrls?.<k>, when it is set and not the empty string
baseSet(baseUrls, k) == Has(baseUrls, k) /\ baseUrls[k] # <<>>

position(m) == [start |-> m.index, end |-> m.end]

urlMatch(text, m) ==
    LET whole == Whole(text, m) IN
    [type |-> "url", text |-> whole, value |-> whole, position |-> position(m),
     url |-> IF startsWith(whole, Http) THEN whole ELSE HttpsPrefix \o whole]

hashtagMatch(text, m, baseUrls) ==
    LET whole == Whole(text, m)
        tag == SubSeq(whole, 2, Len(whole))
    IN [type |-> "hashtag", text |-> whole, value |-> tag, position |-> position(m),
        url |-> (IF baseSet(baseUrls, "hashtags")
                 THEN stripTrailingSlash(baseUrls.hashtags) ELSE TagsBase)
                \o <<"/">> \o tag]

mentionMatch(text, m, baseUrls) ==
    LET whole == Whole(text, m)
        username == SubSeq(whole, 2, Len(whole))
    IN [type |-> "mention", text |-> whole, value |-> username, position |-> position(m),
        url |-> (IF baseSet(baseUrls, "mentions")
                 THEN stripTrailingSlash(baseUrls.mentions) ELSE UsersBase)
                \o <<"/">> \o username]

emailMatch(text, m) ==
    LET whole == Whole(text, m) IN
    [type |-> "email", text |-> whole, value |-> whole, position |-> position(m),
     url |-> MailTo \o whole]

phoneMatch(text, m) ==
    LET countryCode == Group(text, m, 1)
        area == Group(text, m, 2)
        prefix == Group(text, m, 3)
        line == Group(text, m, 4)
        ext == Group(text, m, 5)
        formatted ==
            (IF countryCode # <<>> THEN <<"+">> \o countryCode \o <<" ">> ELSE <<>>)
            \o <<"(">> \o area \o <<")", " ">> \o prefix \o <<"-">> \o line
            \o (IF ext # <<>> THEN <<" ", "x">> \o ext ELSE <<>>)
        value ==
            (IF countryCode # <<>> THEN <<"+">> \o countryCode ELSE <<>>)
            \o area \o prefix \o line
            \o (IF ext # <<>> THEN <<";">> \o ext ELSE <<>>)
    IN [type |-> "phone", text |-> Whole(text, m), value |-> formatted,
        position |-> position(m), url |-> Tel \o value]

linkMatch(text, m, baseUrls) ==
    LET target == Group(text, m, 2) IN
    [type |-> "markdown-link", text |-> Whole(text, m), value |-> Group(text, m, 1),
     position |-> position(m),
     url |-> IF startsWith(target, Http) \/ ~baseSet(baseUrls, "assets")
             THEN target
             ELSE stripTrailingSlash(baseUrls.assets) \o <<"/">> \o stripLeadingSlash(target)]

\* mutant: the matches stay in the order the recognizers pushed them
unsorted(matches) == matches

\* matches.sort((a, b) => a.position.start - b.position.start): stable
RECURSIVE insertSorted(_, _)
insertSorted(sorted, x) ==
    IF sorted = <<>> THEN <<x>>
    ELSE IF sorted[Len(sorted)].position.start <= x.position.start
    THEN Append(sorted, x)
    ELSE Append(insertSorted(SubSeq(sorted, 1, Len(sorted) - 1), x), sorted[Len(sorted)])

RECURSIVE sortFrom(_, _, _)
sortFrom(matches, i, sorted) ==
    IF i > Len(matches) THEN sorted
    ELSE sortFrom(matches, i + 1, insertSorted(sorted, matches[i]))

sortByStart(matches) == sortFrom(matches, 1, <<>>)

findLinkableElements(this, text, baseUrls) ==
    LET u == matchAll(url, text)
        h == matchAll(hashtag, text)
        n == matchAll(mention, text)
        e == matchAll(email, text)
        p == matchAll(phone, text)
        l == matchAll(links, text)
        urls == IF this.urls THEN [i \in DOMAIN u |-> urlMatch(text, u[i])] ELSE <<>>
        hashtags == IF this.hashtags
                    THEN [i \in DOMAIN h |-> hashtagMatch(text, h[i], baseUrls)] ELSE <<>>
        mentions == IF this.mentions
                    THEN [i \in DOMAIN n |-> mentionMatch(text, n[i], baseUrls)] ELSE <<>>
        emails == IF this.emails THEN [i \in DOMAIN e |-> emailMatch(text, e[i])] ELSE <<>>
        phones == IF this.phones THEN [i \in DOMAIN p |-> phoneMatch(text, p[i])] ELSE <<>>
        mdLinks == IF this.markdownLinks
                   THEN [i \in DOMAIN l |-> linkMatch(text, l[i], baseUrls)] ELSE <<>>
    IN sortByStart(urls \o hashtags \o mentions \o emails \o phones \o mdLinks)

----------------------------------------------------------------------------
(* TextUtils.processText *)

formatPhoneNumber(maskInst, phoneValue) == mask(maskInst, phoneValue, Name("phone"))

\* the forEach that reformats the phone matches in place
maskMatches(maskInst, matches, options) ==
    IF ~Has(options, "mask") THEN matches
    ELSE [i \in DOMAIN matches |->
            IF matches[i].type = "phone" /\ Truthy(options.mask, "phones")
            THEN [matches[i] EXCEPT !.value = formatPhoneNumber(maskInst, matches[i].value).s]
            ELSE matches[i]]

\* types.includes(m.type)
includes(types, x) == \E i \in DOMAIN types : types[i] = x

filterByTypes(matches, options) ==
    IF Has(options, "parse") /\ Has(options.parse, "types")
    THEN SelectSeq(matches, LAMBDA m : includes(options.parse.types, m.type))
    ELSE matches

processText(this, maskInst, text, options) ==
    LET found == findLinkableElements(this, text,
                   IF Has(options, "parse") /\ Has(options.parse, "baseUrls")
                   THEN options.parse.baseUrls ELSE NoTokens)
        matches == maskMatches(maskInst, found, options)
    IN [tag |-> "processed", matches |-> matches,
        filtered |-> filterByTypes(matches, options), originalText |-> text]

----------------------------------------------------------------------------
(* Inputs of the mask engine *)

\* longest value drawn from ValuePool
MaxValueLen == 3
\* number of generated values per preset
NumSeeds == 3

ValuePool == {"1", "a", "B", "-"}

RECURSIVE SeqsUpTo(_, _)
SeqsUpTo(S, n) ==
    IF n = 0 THEN {<<>>}
    ELSE LET shorter == SeqsUpTo(S, n - 1) IN
         shorter \cup {Append(q, c) : q \in {r \in shorter : Len(r) = n - 1}, c \in S}

ShortValues == SeqsUpTo(ValuePool, MaxValueLen)

AllCharsSeq == DigitSeq \o LowerSeq \o UpperSeq

\* the j-th character (cyclically) that a token accepts
GenChar(token, j) ==
    LET acc == SelectSeq(AllCharsSeq, LAMBDA c : c \in token.pattern)
    IN acc[(j % Len(acc)) + 1]

IsPlaceholder(tokens, c) == c # "?" /\ c \in DOMAIN tokens

\* the placeholders of a template, in order
Placeholders(template, tokens) ==
    SelectSeq(template, LAMBDA c : IsPlaceholder(tokens, c))

\* one accepted character per placeholder and nothing else
RawValue(template, tokens, seed) ==
    LET ph == Placeholders(template, tokens)
    IN [i \in DOMAIN ph |-> GenChar(tokens[ph[i]], seed + i * (seed + 1))]

\* the template with its k-th placeholder replaced by f[k]; the optional
\* marker is no part of the shape
RECURSIVE Fill(_, _, _, _, _)
Fill(template, tokens, f, m, k) ==
    IF m > Len(template) THEN <<>>
    ELSE IF template[m] = "?" THEN Fill(template, tokens, f, m + 1, k)
    ELSE IF IsPlaceholder(tokens, template[m])
    THEN <<f[k]>> \o Fill(template, tokens, f, m + 1, k + 1)
    ELSE <<template[m]>> \o Fill(template, tokens, f, m + 1, k)

Shape(template, tokens, raw) == Fill(template, tokens, raw, 1, 1)

\* the template up to its optional marker (all of it when it has none)
RECURSIVE BeforeMarker(_)
BeforeMarker(template) ==
    IF template = <<>> \/ Head(template) = "?" THEN <<>>
    ELSE <<Head(template)>> \o BeforeMarker(Tail(template))

\* the values a preset is called with: raw, raw for the part before the
\* optional marker, already shaped, one short, one wrong
PresetTokens(n) == maskTokens(constructor(NoTokens), PRESET_MASKS[n])

PresetValues(n) ==
    LET t == PRESET_MASKS[n].mask.s
        tk == PresetTokens(n)
    IN UNION {
         LET raw == RawValue(t, tk, seed) IN
         {raw, RawValue(BeforeMarker(t), tk, seed), Shape(t, tk, raw),
          SubSeq(raw, 1, Len(raw) - 1), [raw EXCEPT ![1] = "-"]} : seed \in 0 .. NumSeeds - 1}

Amount1234_5 == <<"1","2","3","4",".","5">>

\* all values over a set of characters that have the shape of a template
RECURSIVE Conforming(_, _, _, _)
Conforming(template, tokens, pool, m) ==
    IF m > Len(template) THEN {<<>>}
    ELSE LET rest == Conforming(template, tokens, pool, m + 1)
             here == IF IsPlaceholder(tokens, template[m])
                     THEN tokens[template[m]].pattern \cap pool
                     ELSE {template[m]}
         IN {<<c>> \o r : c \in here, r \in rest}

ConformingPool == {"1", "7", "a", "B", "f"}

\* the templates of explicit options
T_9d9 == <<"9","-","9">>
T_aa == <<"a","a">>
T_99 == <<"9","9">>
T_p9p == <<"(","9",")">>
T_p99p == <<"(","9","9",")">>
T_A9 == <<"A","9">>
T_Xx == <<"X","x">>
T_9o9d == <<"9","?","9","-">>
T_o9 == <<"?","9">>

MaskChoices ==
    {Str(T_9d9), Str(T_aa), Str(T_p9p), Str(T_p99p), Str(T_Xx), Str(T_9o9d), Str(T_o9), Str(<<>>),
     Arr(<<T_99, T_aa>>), Arr(<<T_9d9, T_A9>>), Arr(<<>>)}

WithAutoClear(o) ==
    {o, [k \in DOMAIN o \cup {"autoClear"} |-> IF k = "autoClear" THEN TRUE ELSE o[k]],
        [k \in DOMAIN o \cup {"autoClear"} |-> IF k = "autoClear" THEN FALSE ELSE o[k]]}

LetterNine == [k \in {"9"} |-> [pattern |-> Letters]]

OptionChoices ==
    UNION {WithAutoClear([mask |-> m]) : m \in MaskChoices}
    \cup {[mask |-> Str(T_99), allowEmpty |-> TRUE],
          [mask |-> Str(T_o9), autoClear |-> FALSE, stripMask |-> TRUE],
          [mask |-> Str(T_99), autoClear |-> FALSE, tokens |-> LetterNine]}

\* what createMask is called with
ConstructChoices ==
    {NoTokens,
     [mask |-> Str(T_9d9), autoClear |-> FALSE],
     [mask |-> Str(T_p9p), autoClear |-> FALSE],
     [mask |-> Arr(<<T_99, T_aa>>)],
     [mask |-> Arr(<<T_99, T_aa>>), autoClear |-> FALSE],
     [mask |-> Arr(<<>>), autoClear |-> FALSE],
     [mask |-> Str(<<>>), autoClear |-> FALSE, allowEmpty |-> TRUE],
     [mask |-> Str(T_o9), autoClear |-> FALSE, stripMask |-> TRUE],
     [mask |-> Str(T_99), autoClear |-> FALSE, tokens |-> LetterNine]}

TemplatesOf(o) ==
    IF ~Has(o, "mask") THEN {}
    ELSE IF o.mask.kind = "array" THEN Range(o.mask.a) ELSE {o.mask.s}

ValuesFor(this, o) ==
    ShortValues \cup
    UNION {Conforming(t, maskTokens(this, o), ConformingPool, 1) : t \in TemplatesOf(o)}

----------------------------------------------------------------------------
(* The callers of the mask engine: one call at a time, then its return *)

Idle == [op |-> "none"]
NoRet == [tag |-> "none"]

Init ==
    /\ inst = constructor(NoTokens)
    /\ parser = parserConstructor([all |-> TRUE])
    /\ phase = "idle"
    /\ call = Idle
    /\ ret = NoRet

\* createMask(options)
Construct ==
    /\ phase = "idle"
    /\ \E o \in ConstructChoices : inst' = constructor(o)
    /\ UNCHANGED <<parser, phase, call, ret>>

\* mask(value, options) with explicit options
MaskWith ==
    /\ phase = "idle"
    /\ \E o \in OptionChoices : \E value \in ValuesFor(inst, o) :
         /\ call' = [op |-> "mask", value |-> value, maskOpt |-> Obj(o)]
         /\ ret' = mask(inst, value, Obj(o))
    /\ phase' = "returned"
    /\ UNCHANGED <<inst, parser>>

\* mask(value, name) with the name of a preset
MaskPreset ==
    /\ phase = "idle"
    /\ \E n \in PresetNames :
       \E value \in PresetValues(n) \cup {<<>>, <<"1">>, Amount1234_5} :
         /\ call' = [op |-> "mask", value |-> value, maskOpt |-> Name(n)]
         /\ ret' = mask(inst, value, Name(n))
    /\ phase' = "returned"
    /\ UNCHANGED <<inst, parser>>

\* mask(value), and mask(value, name) with a name that is no preset
MaskStored ==
    /\ phase = "idle"
    /\ \E mo \in {None, Name("bogus"), Name("toString")} :
       \E value \in ValuesFor(inst, inst.options) :
         /\ call' = [op |-> "mask", value |-> value, maskOpt |-> mo]
         /\ ret' = mask(inst, value, mo)
    /\ phase' = "returned"
    /\ UNCHANGED <<inst, parser>>

IsComplete ==
    /\ phase = "idle"
    /\ \E value \in ValuesFor(inst, inst.options) :
         /\ call' = [op |-> "isComplete", value |-> value]
         /\ ret' = Bool(isComplete(inst, value))
    /\ phase' = "returned"
    /\ UNCHANGED <<inst, parser>>

StripMask ==
    /\ phase = "idle"
    /\ \E value \in ShortValues :
         /\ call' = [op |-> "stripMask", value |-> value]
         /\ ret' = Ok(stripMask(inst, value))
    /\ phase' = "returned"
    /\ UNCHANGED <<inst, parser>>

FormatCurrency ==
    /\ phase = "idle"
    /\ \E amount \in {Amount1234_5, <<>>, <<"1","2">>} \cup PresetValues("currency") :
         /\ call' = [op |-> "formatCurrency", value |-> amount]
         /\ ret' = formatCurrency(inst, amount)
    /\ phase' = "returned"
    /\ UNCHANGED <<inst, parser>>

\* the caller takes the result
Return ==
    /\ phase = "returned"
    /\ phase' = "idle"
    /\ call' = Idle
    /\ ret' = NoRet
    /\ UNCHANGED <<inst, parser>>

Next ==
    \/ Construct
    \/ MaskWith
    \/ MaskPreset
    \/ MaskStored
    \/ IsComplete
    \/ StripMask
    \/ FormatCurrency
    \/ Return

Spec == Init /\ [][Next]_vars

----------------------------------------------------------------------------
(* Inputs and callers of the entity matcher *)

\* most fragments in one text
MaxFrags == 2

Fragments ==
    {<<"1","2","3","4","5","6","7","8","9","0">>,
     <<"+","1"," ","5","5","5","1","2","3","4","5","6","7"," ","x","8">>,
     <<"5","5","5","-","1","2","3","-","4","5","6","7"," ","x","9">>,
     <<"#","a","b">>,
     <<"@","c","d">>,
     <<"a",".","i","o">>,
     <<"h","t","t","p",":","/","/","a",".","i","o","/","b">>,
     <<"m","e","@","a",".","i","o">>,
     <<"[","a","b","]","(","c",".","i","o",")">>}

\* the fragments of a text stand apart by one space
RECURSIVE TextsOf(_)
TextsOf(n) ==
    IF n = 0 THEN {<<>>}
    ELSE LET fewer == TextsOf(n - 1) IN
         fewer \cup Fragments
               \cup {t \o <<" ">> \o f : t \in fewer \ {<<>>}, f \in Fragments}

Texts == TextsOf(MaxFrags)

ParserChoices ==
    {[all |-> TRUE],
     [urls |-> TRUE, hashtags |-> TRUE, mentions |-> TRUE, phones |-> TRUE],
     [emails |-> TRUE, markdownLinks |-> TRUE, all |-> FALSE],
     [phones |-> TRUE]}

BaseUrlChoices ==
    {NoTokens,
     [hashtags |-> <<"/","h","/">>, mentions |-> <<"/","u">>, assets |-> <<"/","s","/">>]}

ProcessChoices ==
    {NoTokens,
     [parse |-> [types |-> <<"phones", "urls">>], mask |-> [phones |-> TRUE]],
     [parse |-> [types |-> <<"hashtags", "mentions", "emails">>,
                 baseUrls |-> [hashtags |-> <<"/","h","/">>]]],
     [parse |-> [types |-> <<>>]],
     [mask |-> [phones |-> TRUE]]}

\* createParser(options)
CreateParser ==
    /\ phase = "idle"
    /\ \E o \in ParserChoices : parser' = parserConstructor(o)
    /\ UNCHANGED <<inst, phase, call, ret>>

FindLinkableElements ==
    /\ phase = "idle"
    /\ \E text \in Texts : \E baseUrls \in BaseUrlChoices :
         /\ call' = [op |-> "findLinkableElements", text |-> text, baseUrls |-> baseUrls]
         /\ ret' = [tag |-> "matches",
                    matches |-> findLinkableElements(parser, text, baseUrls)]
    /\ phase' = "returned"
    /\ UNCHANGED <<inst, parser>>

ProcessText ==
    /\ phase = "idle"
    /\ \E text \in Texts : \E options \in ProcessChoices :
         /\ call' = [op |-> "processText", text |-> text, options |-> options]
         /\ ret' = processText(parser, inst, text, options)
    /\ phase' = "returned"
    /\ UNCHANGED <<inst, parser>>

ParserNext ==
    \/ CreateParser
    \/ FindLinkableElements
    \/ ProcessText
    \/ Return

ParserSpec == Init /\ [][ParserNext]_vars

----------------------------------------------------------------------------
(* What the claims are stated with *)

MaskReturned == phase = "returned" /\ call.op = "mask"

\* the call names a preset of the table
PresetCall == MaskReturned /\ call.maskOpt.kind = "name" /\ call.maskOpt.name \in PresetNames

\* the call passes explicit options
ObjectCall == MaskReturned /\ call.maskOpt.kind = "object"

\* the call falls back on the stored options
StoredCall ==
    /\ MaskReturned
    /\ \/ call.maskOpt.kind = "undefined"
       \/ call.maskOpt.kind = "name" /\ call.maskOpt.name \notin PresetNames \cup InheritedNames

\* the options a mask call works with, when PresetCall, ObjectCall or StoredCall
CallOptions ==
    IF PresetCall THEN PRESET_MASKS[call.maskOpt.name]
    ELSE IF ObjectCall THEN call.maskOpt.options
    ELSE inst.options

CallTokens == maskTokens(inst, CallOptions)

DefaultInstance == constructor(NoTokens)

NoOverrides == DOMAIN inst.options.tokens = {}

HasMarker(template) == \E m \in DOMAIN template : template[m] = "?"

\* the template without its optional markers
Unmarked(template) == SelectSeq(template, LAMBDA c : c # "?")

\* what a token's transform is documented to do to an accepted character
Normal(token, c) ==
    IF ~Has(token, "transform") THEN c
    ELSE IF token.transform = "upper" THEN toUpperCase(c)
    ELSE IF token.transform = "lower" THEN toLowerCase(c)
    ELSE c

\* value is exactly one accepted character per placeholder
IsRaw(value, template, tokens) ==
    LET ph == Placeholders(template, tokens) IN
    /\ Len(value) = Len(ph)
    /\ \A i \in DOMAIN ph : value[i] \in tokens[ph[i]].pattern

\* value has the full shape of the template: literals in place, accepted
\* characters at the placeholders
Conforms(value, template, tokens) ==
    /\ Len(value) = Len(template)
    /\ \A m \in DOMAIN template :
         IF IsPlaceholder(tokens, template[m])
         THEN value[m] \in tokens[template[m]].pattern
         ELSE value[m] = template[m]

----------------------------------------------------------------------------
(* C1 *)

NoMarkerPresets == {n \in PresetNames : ~HasMarker(PRESET_MASKS[n].mask.s)}

C1Case ==
    /\ PresetCall
    /\ call.maskOpt.name \in NoMarkerPresets
    /\ NoOverrides
    /\ IsRaw(call.value, PRESET_MASKS[call.maskOpt.name].mask.s, CallTokens)

\* C1: on an instance without token overrides, a preset without optional
\* marker, given exactly one accepted character per placeholder, returns its
\* template with every placeholder replaced in order by the transformed
\* character and every literal in place.
C1_PresetShape ==
    C1Case =>
      LET t == PRESET_MASKS[call.maskOpt.name].mask.s
          ph == Placeholders(t, CallTokens)
      IN ret = Ok(Shape(t, CallTokens,
                        [i \in DOMAIN ph |-> Normal(CallTokens[ph[i]], call.value[i])]))

C1_Witness ==
    /\ C1Case
    /\ call.maskOpt.name = "phone"
    /\ call.value = <<"1","2","3","4","5","6","7","8","9","0">>
    /\ ret = Ok(<<"(","1","2","3",")"," ","4","5","6","-","7","8","9","0">>)

----------------------------------------------------------------------------
(* C2 *)

C2Case == phase = "returned" /\ call.op = "findLinkableElements"

----------------------------------------------------------------------------
(* C3 *)

\* the single-template algorithm has a non-failure result for the value
Fits(value, pattern, tokens) ==
    processValue(value, pattern, tokens, [autoClear |-> FALSE]).tag = "str"

\* C3: with several templates, the result is the formatted result of the
\* first template, in list order, that the value fits, whatever autoClear is.
C3_FirstFitWins ==
    (ObjectCall /\ call.maskOpt.options.mask.kind = "array") =>
      LET masks == maskList(CallOptions) IN
      \A k \in DOMAIN masks :
        (/\ Fits(call.value, masks[k], CallTokens)
         /\ \A j \in 1 .. k - 1 : ~Fits(call.value, masks[j], CallTokens))
        => ret = processValue(call.value, masks[k], CallTokens, [autoClear |-> FALSE])

----------------------------------------------------------------------------
(* C4 *)

C4Case ==
    /\ PresetCall \/ ObjectCall \/ StoredCall
    /\ Len(maskList(CallOptions)) = 1
    /\ ~HasMarker(maskList(CallOptions)[1].s)
    /\ Conforms(call.value, maskList(CallOptions)[1].s, CallTokens)

\* C4 as claimed: a value that fully conforms to a template without optional
\* marker is returned unchanged.
C4_Idempotent == C4Case => ret = Ok(call.value)

\* the transform of each placeholder's token leaves the character there as it is
C4Normalised ==
    LET t == maskList(CallOptions)[1].s IN
    \A m \in DOMAIN t :
      IsPlaceholder(CallTokens, t[m]) => Normal(CallTokens[t[m]], call.value[m]) = call.value[m]

\* C4 (amended): a value that fully conforms to a template without optional
\* marker, and whose placeholder characters are already in the case their
\* tokens transform to, is returned unchanged.
C4_IdempotentNormalised == (C4Case /\ C4Normalised) => ret = Ok(call.value)

C4_Witness ==
    /\ C4Case /\ C4Normalised
    /\ call.value = <<"(","7",")">>
    /\ ret = Ok(<<"(","7",")">>)

----------------------------------------------------------------------------
(* C5 *)

C5Case == phase = "returned" /\ call.op = "isComplete" /\ ~inst.options.autoClear

\* mask(value) with the stored options, for one of their templates
MaskOne(template) ==
    mask(inst, call.value, Obj([inst.options EXCEPT !.mask = Str(template)]))

NonEmpty(r) == r.tag = "str" /\ r.s # <<>>

\* C5 as claimed: with autoClear = false, isComplete(value) is true exactly
\* when mask(value) has a non-empty result for at least one stored template.
C5_CompleteIffNonEmpty ==
    C5Case => (ret.b <=> \E t \in TemplatesOf(inst.options) : NonEmpty(MaskOne(t)))

\* the template formats the value to the empty string without failing: it is
\* empty, or it starts with the optional marker and what follows is a
\* placeholder that accepts no character of the value (or nothing at all)
FormatsToEmpty(value, template, tokens) ==
    \/ template = <<>>
    \/ /\ value # <<>>
       /\ template[1] = "?"
       /\ LET rest == Unmarked(template) IN
          \/ rest = <<>>
          \/ /\ IsPlaceholder(tokens, rest[1])
             /\ \A i \in DOMAIN value : value[i] \notin tokens[rest[1]].pattern

\* C5 (amended): with autoClear = false, isComplete(value) is true exactly
\* when, for at least one stored template, mask(value) has a non-empty result
\* or the template formats the value to the empty string without failing.
C5_CompleteIffFormats ==
    C5Case =>
      (ret.b <=> \E t \in TemplatesOf(inst.options) :
                   \/ NonEmpty(MaskOne(t))
                   \/ FormatsToEmpty(call.value, t, inst.tokens))

C5_Witness ==
    /\ C5Case
    /\ inst.options.mask = Arr(<<T_99, T_aa>>)
    /\ call.value = <<"a", "B">>
    /\ ret = Bool(TRUE)

----------------------------------------------------------------------------
(* C6 *)

\* C6 as claimed: a preset's result is that of the default instance, whatever
\* options the instance was constructed with.
C6_PresetIgnoresInstance ==
    PresetCall => ret = mask(DefaultInstance, call.value, call.maskOpt)

\* C6 (amended): a preset's result depends on the value, the preset and the
\* instance's token table only: it is the result of an instance that has the
\* default options and the same token table.
C6_PresetIgnoresStoredOptions ==
    PresetCall =>
      ret = mask([options |-> DefaultInstance.options, tokens |-> inst.tokens],
                 call.value, call.maskOpt)

C6_Witness ==
    /\ PresetCall
    /\ inst.options.mask = Str(T_9d9)
    /\ ~inst.options.autoClear
    /\ call.maskOpt.name = "date"
    /\ ret = Ok(<<"1","2","/","3","4","/","5","6","7","8">>)

----------------------------------------------------------------------------
(* C7 *)

\* C7: no operation raises an exception.
C7_NeverThrows == ret.tag # "throw"

----------------------------------------------------------------------------
(* C8 *)

\* position p of the unmarked template lies after the optional marker
AfterMarker(template, p) ==
    \E m \in DOMAIN template :
      /\ template[m] = "?"
      /\ Len(Unmarked(SubSeq(template, 1, m))) < p

\* out[p] is the transform of an input character the token accepts
FilledFrom(value, token, c) ==
    \E i \in DOMAIN value : value[i] \in token.pattern /\ c = Normal(token, value[i])

\* C8 as claimed, for one result: every literal is in the output at its
\* template position; every placeholder position holds a transformed accepted
\* input character, or is absent when it lies after the optional marker.
FullShape(out, value, template, tokens) ==
    LET tt == Unmarked(template) IN
    /\ Len(out) <= Len(tt)
    /\ \A p \in DOMAIN tt :
         IF IsPlaceholder(tokens, tt[p])
         THEN \/ p <= Len(out) /\ FilledFrom(value, tokens[tt[p]], out[p])
              \/ p > Len(out) /\ AfterMarker(template, p)
         ELSE p <= Len(out) /\ out[p] = tt[p]

\* C8 (amended), for one result: the output is laid out like the template as
\* far as the output goes; it stops short only after the optional marker,
\* and then the literals past its end are absent like the placeholders.
PrefixShape(out, value, template, tokens) ==
    LET tt == Unmarked(template) IN
    /\ Len(out) <= Len(tt)
    /\ \A p \in DOMAIN out :
         IF IsPlaceholder(tokens, tt[p])
         THEN FilledFrom(value, tokens[tt[p]], out[p])
         ELSE out[p] = tt[p]
    /\ Len(out) < Len(tt) => AfterMarker(template, Len(out) + 1)

C8Case == PresetCall \/ ObjectCall \/ StoredCall

\* the results of the single-template algorithm that the call computes with
C8Results ==
    {[t |-> t, r |-> processValue(call.value, Str(t), CallTokens, CallOptions)] :
       t \in TemplatesOf(CallOptions)}

\* C8 as claimed (the empty string that autoClear returns for a failure is
\* left aside)
C8_FullShape ==
    C8Case => \A x \in C8Results :
                NonEmpty(x.r) => FullShape(x.r.s, call.value, x.t, CallTokens)

\* C8 (amended): every non-empty result of the single-template algorithm is
\* laid out like the template without its optional markers as far as it goes:
\* literals in place, placeholders holding transformed accepted input; it is
\* shorter than the template only from a position after the optional marker.
C8_PrefixShape ==
    C8Case => \A x \in C8Results :
                NonEmpty(x.r) => PrefixShape(x.r.s, call.value, x.t, CallTokens)

C8_Witness ==
    /\ ObjectCall
    /\ call.maskOpt.options.mask = Str(T_9o9d)
    /\ call.value = <<"1", "1">>
    /\ ret = Ok(<<"1", "1">>)

----------------------------------------------------------------------------
(* C9 *)

\* C9: formatCurrency("1234.5") is "$1,234.50".
C9_Currency ==
    (phase = "returned" /\ call.op = "formatCurrency" /\ call.value = Amount1234_5)
      => ret = Ok(<<"$","1",",","2","3","4",".","5","0">>)

----------------------------------------------------------------------------
(* C10 *)

\* the match type that a requested type names
KindOf(requested) ==
    CASE requested = "urls" -> "url"
      [] requested = "hashtags" -> "hashtag"
      [] requested = "mentions" -> "mention"
      [] requested = "phones" -> "phone"
      [] requested = "emails" -> "email"
      [] OTHER -> requested

\* C10: filtered holds exactly the matches whose kind is among the requested
\* parse.types, and is matches when no types are given.
C10_FilteredByKind ==
    (phase = "returned" /\ call.op = "processText") =>
      ret.filtered =
        IF Has(call.options, "parse") /\ Has(call.options.parse, "types")
        THEN SelectSeq(ret.matches,
               LAMBDA m : \E i \in DOMAIN call.options.parse.types :
                            KindOf(call.options.parse.types[i]) = m.type)
        ELSE ret.matches

----------------------------------------------------------------------------
(* C11 *)

\* one template with an optional marker, and a non-empty value that is exactly
\* one accepted character for every placeholder before the marker
C11Case ==
    /\ PresetCall \/ ObjectCall \/ StoredCall
    /\ Len(maskList(CallOptions)) = 1
    /\ HasMarker(maskList(CallOptions)[1].s)
    /\ call.value # <<>>
    /\ IsRaw(call.value, BeforeMarker(maskList(CallOptions)[1].s), CallTokens)

\* C11: a value that supplies exactly one accepted character for every
\* placeholder before the optional marker, and then ends, is formatted to the
\* required part of the template, the optional rest being absent; the result
\* is neither a failure nor the empty string.
C11_OptionalRestAbsent ==
    C11Case =>
      LET t == BeforeMarker(maskList(CallOptions)[1].s)
          ph == Placeholders(t, CallTokens)
      IN ret = Ok(Shape(t, CallTokens,
                        [i \in DOMAIN ph |-> Normal(CallTokens[ph[i]], call.value[i])]))

----------------------------------------------------------------------------
(* C12 *)

\* one template without optional marker, and a value that is exactly one
\* accepted character for every placeholder
C12Case ==
    /\ PresetCall \/ ObjectCall \/ StoredCall
    /\ Len(maskList(CallOptions)) = 1
    /\ ~HasMarker(maskList(CallOptions)[1].s)
    /\ IsRaw(call.value, maskList(CallOptions)[1].s, CallTokens)

\* C12: a value that supplies an accepted character for every placeholder of
\* a template without optional marker yields the full template-shaped result,
\* every literal included, also the literals after the last placeholder.
C12_TrailingLiterals ==
    C12Case =>
      LET t == maskList(CallOptions)[1].s
          ph == Placeholders(t, CallTokens)
      IN ret = Ok(Shape(t, CallTokens,
                        [i \in DOMAIN ph |-> Normal(CallTokens[ph[i]], call.value[i])]))

----------------------------------------------------------------------------
(* C13 *)

C13Case ==
    /\ phase = "returned" /\ call.op = "processText"
    /\ Has(call.options, "mask") /\ Truthy(call.options.mask, "phones")

\* what the entity matcher found, before any reformatting
C13Found ==
    findLinkableElements(parser, call.text,
      IF Has(call.options, "parse") /\ Has(call.options.parse, "baseUrls")
      THEN call.options.parse.baseUrls ELSE NoTokens)

\* value is '(AAA) PPP-LLLL' for the area, prefix and line digits of the phone
\* number that stands at index start of the text
PhoneFormatAt(value, text, start) ==
    LET ms == matchAll(phone, text) IN
    \E k \in DOMAIN ms :
      /\ ms[k].index = start
      /\ value = <<"(">> \o Group(text, ms[k], 2) \o <<")", " ">>
                 \o Group(text, ms[k], 3) \o <<"-">> \o Group(text, ms[k], 4)

\* C13: after processText with mask.phones, every phone match has a non-empty
\* value, the phone preset's '(AAA) PPP-LLLL' of its area, prefix and line
\* digits, and the position and url that the entity matcher gave it.
C13_PhonesReformatted ==
    C13Case =>
      \A i \in DOMAIN ret.matches :
        ret.matches[i].type = "phone" =>
          /\ ret.matches[i].value # <<>>
          /\ PhoneFormatAt(ret.matches[i].value, call.text, ret.matches[i].position.start)
          /\ ret.matches[i].position = C13Found[i].position
          /\ ret.matches[i].url = C13Found[i].url

====
